---- MODULE Spec2Model ----
(***************************************************************************)
(* A model of dsp4rust's SignalBase (src/src/inner/base.rs): a container   *)
(* of samples with signed ("circular") indexing, slicing and padding.      *)
(*                                                                         *)
(* A container is a TLA+ sequence (position p of the Rust array is element *)
(* p + 1 of the sequence).  Samples are drawn from a small set of numbers. *)
(* usize values that can be large (pad widths, casts of negative indices)  *)
(* are kept at their real width of 64 bits, as four 16-bit limbs, least    *)
(* significant first, so that wrap-around and the comparisons against      *)
(* isize::MAX are computed as the machine computes them.                   *)
(***************************************************************************)
EXTENDS Integers, Sequences, FiniteSets, TLC

VARIABLES sig, overflow_checks, last

vars == <<sig, overflow_checks, last>>

\* ------------------------------------------------------------------ bounds
MaxLen == 3
MaxPad == 7
MaxArithLen == 2

Vals == {1, 2, 3}
ConsVals == {0, 1}
Sides == {"Left", "Right", "Both"}

Containers == UNION {[1..n -> Vals] : n \in 0..MaxLen}
Indices == -(MaxLen + 1)..(MaxLen + 1)

\* ------------------------------------------------- 64-bit usize arithmetic
Limb == 2^16

ToUsize(n) == <<n % Limb, n \div Limb, 0, 0>>

\* `index as usize` for a negative isize: 2^64 + index.
NegAsUsize(index) == <<Limb + index, Limb - 1, Limb - 1, Limb - 1>>

IsizeAsUsize(index) == IF index < 0 THEN NegAsUsize(index) ELSE ToUsize(index)

\* isize::MAX as usize = 2^63 - 1
ISIZE_MAX == <<Limb - 1, Limb - 1, Limb - 1, (Limb \div 2) - 1>>

\* The largest number of f64 elements (8 bytes each) a Vec can hold:
\* isize::MAX / 8 = 2^60 - 1.
MaxElems == <<Limb - 1, Limb - 1, Limb - 1, (Limb \div 16) - 1>>

UsizeGt(a, b) ==
    \/ a[4] > b[4]
    \/ a[4] = b[4] /\ a[3] > b[3]
    \/ a[4] = b[4] /\ a[3] = b[3] /\ a[2] > b[2]
    \/ a[4] = b[4] /\ a[3] = b[3] /\ a[2] = b[2] /\ a[1] > b[1]

\* a + b on usize: the wrapped sum and whether it overflowed 64 bits.
UsizeAdd(a, b) ==
    LET s1 == a[1] + b[1]
        s2 == a[2] + b[2] + (s1 \div Limb)
        s3 == a[3] + b[3] + (s2 \div Limb)
        s4 == a[4] + b[4] + (s3 \div Limb)
    IN  [val |-> <<s1 % Limb, s2 % Limb, s3 % Limb, s4 % Limb>>,
         ovf |-> s4 >= Limb]

\* A usize that is small enough to be a length in this model.
IsSmall(a) == a[4] = 0 /\ a[3] = 0 /\ a[2] < (Limb \div 4)

ToNat(a) == a[1] + a[2] * Limb

\* ---------------------------------------------------------------- results
Ok(v) == [kind |-> "ok", val |-> v, err |-> ""]
Err(e) == [kind |-> "err", val |-> <<>>, err |-> e]
Panic(m) == [kind |-> "panic", val |-> <<>>, err |-> m]

\* ------------------------------------------------------- iterator adaptors
Skip(s, n) == SubSeq(s, n + 1, Len(s))

Rev(s) == [k \in 1..Len(s) |-> s[Len(s) + 1 - k]]

\* ---------------------------------------------------------------- indexing
\* Mutant of is_idx_valid: the upper bound is tested with <=.
is_idx_valid_upper_inclusive(s, idx) == idx >= -Len(s) /\ idx <= Len(s)

is_idx_valid(s, idx) == idx >= -Len(s) /\ idx < Len(s)

\* `self.base[idx]`: ndarray checks the physical position itself.
array_in_bounds(s, p) == p >= 0 /\ p < Len(s)

\* Mutant of index: a negative index is resolved one position too low.
index_off_by_one(s, idx) ==
    IF ~is_idx_valid(s, idx)
    THEN Panic("Index out of bound")
    ELSE LET p == IF idx < 0 THEN Len(s) - 1 + idx ELSE idx
         IN  IF array_in_bounds(s, p)
             THEN Ok(<<s[p + 1]>>)
             ELSE Panic("ndarray: index out of bounds")

\* Index<isize>: the element read, or a panic.
index(s, idx) ==
    IF ~is_idx_valid(s, idx)
    THEN Panic("Index out of bound")
    ELSE LET p == IF idx < 0 THEN Len(s) + idx ELSE idx
         IN  IF array_in_bounds(s, p)
             THEN Ok(<<s[p + 1]>>)
             ELSE Panic("ndarray: index out of bounds")

\* IndexMut<isize>: the physical position handed out for writing, or a panic.
index_mut(s, idx) ==
    IF ~is_idx_valid(s, idx)
    THEN [panic |-> TRUE, pos |-> 0]
    ELSE LET p == IF idx < 0 THEN Len(s) + idx ELSE idx
         IN  IF array_in_bounds(s, p)
             THEN [panic |-> FALSE, pos |-> p]
             ELSE [panic |-> TRUE, pos |-> 0]

\* ----------------------------------------------------------------- slicing
\* pos_idx: `self.len() + index as usize` is a usize addition; for a negative
\* index the cast gives 2^64 + index, so the sum exceeds 64 bits whenever the
\* index is valid.  With overflow checks the addition panics, without them it
\* wraps to len + index.
pos_idx(s, idx, oc) ==
    IF idx < 0
    THEN LET r == UsizeAdd(ToUsize(Len(s)), IsizeAsUsize(idx))
         IN  IF r.ovf /\ oc
             THEN [panic |-> TRUE, val |-> 0]
             ELSE [panic |-> FALSE, val |-> ToNat(r.val)]
    ELSE [panic |-> FALSE, val |-> idx]

OverflowPanic == Panic("attempt to add with overflow")

\* `self.len() - self.pos_idx(to) - 1` followed by skip: a usize subtraction
\* that panics below zero with overflow checks and otherwise wraps to a count
\* larger than any container, which skips everything.
tail_skip(s, p, oc) ==
    IF Len(s) - p - 1 < 0
    THEN [panic |-> oc, val |-> Len(s)]
    ELSE [panic |-> FALSE, val |-> Len(s) - p - 1]

cut_from(s, from, oc) ==
    IF ~is_idx_valid(s, from)
    THEN Panic("Index out of bounds")
    ELSE LET n_skip == pos_idx(s, from, oc)
         IN  IF n_skip.panic THEN OverflowPanic
             ELSE Ok(Skip(s, n_skip.val))

cut_to(s, to, oc) ==
    IF ~is_idx_valid(s, to)
    THEN Panic("Index out of bounds")
    ELSE LET p == pos_idx(s, to, oc)
         IN  IF p.panic THEN OverflowPanic
             ELSE LET n_skip == tail_skip(s, p.val, oc)
                  IN  IF n_skip.panic
                      THEN Panic("attempt to subtract with overflow")
                      ELSE Ok(Rev(Skip(Rev(s), n_skip.val)))

cut_from_to(s, from, to, oc) ==
    IF ~is_idx_valid(s, from) \/ ~is_idx_valid(s, to)
    THEN Panic("Index out of bounds")
    ELSE LET pf == pos_idx(s, from, oc)
             pt == pos_idx(s, to, oc)
         IN  IF pf.panic \/ pt.panic THEN OverflowPanic
             ELSE IF pf.val > pt.val
             THEN Panic("Invalid range, the positive index of from must be less than to's")
             ELSE LET head_skip == pf.val
                      t_skip == tail_skip(s, pt.val, oc)
                  IN  IF t_skip.panic
                      THEN Panic("attempt to subtract with overflow")
                      ELSE Ok(Rev(Skip(Rev(Skip(s, head_skip)), t_skip.val)))

\* ----------------------------------------------------------------- padding
\* Array1::from_elem(len, ele): `vec![ele; len]` panics with "capacity
\* overflow" when len f64 elements need more than isize::MAX bytes.
from_elem(ele, len) ==
    IF UsizeGt(len, MaxElems)
    THEN Panic("capacity overflow")
    ELSE Ok([k \in 1..ToNat(len) |-> ele])

concat(a, b) == a \o b

\* The capacity test of pad_cons, `self.len() + pad_width > isize::MAX as
\* usize`, the same in all three arms.
pad_cons_check(s, pad_width, oc) ==
    LET r == UsizeAdd(ToUsize(Len(s)), pad_width)
    IN  IF r.ovf /\ oc THEN OverflowPanic
        ELSE IF UsizeGt(r.val, ISIZE_MAX) THEN Err("ResultOutOfBounds")
        ELSE Ok(<<>>)

\* The three arms of pad_cons, on the source and the constant container.
pad_cons_left(s, cons_signal) == concat(s, cons_signal)

pad_cons_right(s, cons_signal) == concat(cons_signal, s)

\* Mutant of pad_cons_both: both constant runs are put after the source.
pad_cons_both_trailing(s, cons_signal) ==
    concat(concat(s, cons_signal), cons_signal)

pad_cons_both(s, cons_signal) == concat(concat(cons_signal, s), cons_signal)

pad_cons(s, pad_side, constants, pad_width, oc) ==
    LET cons_signal == from_elem(constants, pad_width)
        chk == pad_cons_check(s, pad_width, oc)
    IN  IF cons_signal.kind # "ok" THEN cons_signal
        ELSE IF chk.kind # "ok" THEN chk
        ELSE CASE pad_side = "Left" -> Ok(pad_cons_left(s, cons_signal.val))
               [] pad_side = "Right" -> Ok(pad_cons_right(s, cons_signal.val))
               [] pad_side = "Both" -> Ok(pad_cons_both(s, cons_signal.val))

\* ndarray::concatenate(Axis(0), views) of repeat_count views of s: an error
\* (ErrorKind::Unsupported) for an empty list of views.
concatenate(s, repeat_count) ==
    IF repeat_count = 0
    THEN Err("Unsupported")
    ELSE Ok([k \in 1..(repeat_count * Len(s)) |-> s[((k - 1) % Len(s)) + 1]])

\* The capacity test of pad_wrap, `len + 2 * pad_width > isize::MAX as usize`,
\* the same for all three sides.
pad_wrap_check(s, pad_width, oc) ==
    LET m == UsizeAdd(pad_width, pad_width)
        r == UsizeAdd(ToUsize(Len(s)), m.val)
    IN  IF m.ovf /\ oc THEN Panic("attempt to multiply with overflow")
        ELSE IF r.ovf /\ oc THEN OverflowPanic
        ELSE IF UsizeGt(r.val, ISIZE_MAX) THEN Err("ResultOutOfBounds")
        ELSE Ok(<<>>)

\* as_slice().iter().skip(len - remain).rev()
left_iter(s, remain) == Rev(Skip(s, Len(s) - remain))

\* Mutant of right_iter: the two rev() calls are left out, which takes the
\* last `remain` elements instead of the first.
right_iter_no_rev(s, remain) == Skip(s, Len(s) - remain)

\* as_slice().iter().rev().skip(len - remain).rev()
right_iter(s, remain) == Rev(Skip(Rev(s), Len(s) - remain))

pad_wrap(s, pad_side, pad_width, oc) ==
    LET len == Len(s)
        chk == pad_wrap_check(s, pad_width, oc)
    IN  IF chk.kind # "ok" THEN chk
        ELSE IF len = 0 THEN Err("ConcatenationError(Empty input)")
        ELSE IF ~IsSmall(pad_width)
        THEN \* pad_width / len views, or the tiles they describe, exceed
             \* what can be allocated
             Panic("capacity overflow")
        ELSE
        LET w == ToNat(pad_width)
            repeat_count == w \div len
            remain == w % len
            repeated == concatenate(s, repeat_count)
        IN  IF repeated.kind # "ok"
            THEN Panic("unreachable: Unexpected concatenation error for Array1")
            ELSE CASE pad_side = "Left" ->
                          Ok(left_iter(s, remain) \o repeated.val \o s)
                   [] pad_side = "Right" ->
                          Ok(s \o repeated.val \o right_iter(s, remain))
                   [] pad_side = "Both" ->
                          Ok(left_iter(s, remain) \o repeated.val \o s
                             \o repeated.val \o right_iter(s, remain))

\* ------------------------------------------------------- f64 as rationals
\* A sample that need not be an integer (a quotient, a mean) is the pair
\* <<p, q>> of the reduced fraction p / q, q > 0.  A division by zero gives
\* <<1, 0>> or <<-1, 0>> (the infinities) or <<0, 0>> (NaN); no operation of
\* the model takes these as operands.  The operations below are exact; f64
\* rounds to 53 bits.  The two agree where every operand and result is a
\* small dyadic fraction, and where a single division by a small integer is
\* the last operation (the fraction then stands for the f64 nearest to it).
\* The inputs of the specifications are chosen so that nothing else occurs:
\* samples and scalars of chained arithmetic are powers of two.
RECURSIVE Gcd(_, _)
Gcd(a, b) == IF b = 0 THEN a ELSE Gcd(b, a % b)

Abs(a) == IF a < 0 THEN -a ELSE a

Rat(p, q) ==
    LET g == Gcd(Abs(p), Abs(q))
        sgn == IF q < 0 THEN -1 ELSE 1
    IN  <<sgn * (p \div g), sgn * (q \div g)>>

F(n) == <<n, 1>>

f64_add(x, y) == Rat(x[1] * y[2] + y[1] * x[2], x[2] * y[2])
f64_sub(x, y) == Rat(x[1] * y[2] - y[1] * x[2], x[2] * y[2])
f64_mul(x, y) == Rat(x[1] * y[1], x[2] * y[2])
f64_div(x, y) ==
    IF y[1] = 0
    THEN <<(IF x[1] > 0 THEN 1 ELSE IF x[1] < 0 THEN -1 ELSE 0), 0>>
    ELSE Rat(x[1] * y[2], x[2] * y[1])
f64_lt(x, y) == x[1] * y[2] < y[1] * x[2]

\* F::ceil, as an integer
f64_ceil(x) == -((-x[1]) \div x[2])

None == [kind |-> "none", val |-> <<>>, err |-> ""]

\* ------------------------------------------------------ windows, diff, rev
\* Mutant of array_windows: the last window is left out.
array_windows_one_short(s, size) ==
    [k \in 1..(IF Len(s) <= size THEN 0 ELSE Len(s) - size) |->
        SubSeq(s, k, k + size - 1)]

\* ndarray's windows(size) of a one-dimensional array, for size > 0.
array_windows(s, size) ==
    [k \in 1..(IF Len(s) < size THEN 0 ELSE Len(s) - size + 1) |->
        SubSeq(s, k, k + size - 1)]

\* SignalBase::windows: ndarray refuses a window size of zero when called.
windows(s, window_size) ==
    IF window_size = 0
    THEN Panic("window-size must not be zero!")
    ELSE Ok(array_windows(s, window_size))

\* Mutant of diff: only the empty container is refused.
diff_accepts_one(s) ==
    IF Len(s) < 1
    THEN Err("DiffShortLength")
    ELSE LET w == array_windows(s, 2)
         IN  Ok([k \in 1..Len(w) |-> w[k][2] - w[k][1]])

diff(s) ==
    IF Len(s) < 2
    THEN Err("DiffShortLength")
    ELSE LET w == array_windows(s, 2)
         IN  Ok([k \in 1..Len(w) |-> w[k][2] - w[k][1]])

\* Mutant of rev: the first sample is lost while reversing.
rev_drops_first(s) == Ok(Rev(Skip(s, 1)))

rev(s) == Ok(Rev(s))

\* -------------------------------------------------------------- statistics
\* self.base.iter().sum(): a fold from 0 over the samples in order.
RECURSIVE iter_sum(_)
iter_sum(s) ==
    IF Len(s) = 0 THEN 0
    ELSE iter_sum(SubSeq(s, 1, Len(s) - 1)) + s[Len(s)]

sum(s) == Ok(F(iter_sum(s)))

\* ndarray_stats folds from the first sample and replaces the candidate only
\* by a strictly smaller (larger) one; `pos` is the position of the candidate.
RECURSIVE fold_min(_, _, _)
fold_min(s, k, acc) ==
    IF k > Len(s) THEN acc
    ELSE fold_min(s, k + 1, IF s[k] < s[acc] THEN k ELSE acc)

RECURSIVE fold_max(_, _, _)
fold_max(s, k, acc) ==
    IF k > Len(s) THEN acc
    ELSE fold_max(s, k + 1, IF s[k] > s[acc] THEN k ELSE acc)

EmptyInput == Err("MinMaxError::EmptyInput")

\* Mutant of min: the first sample is returned without folding.
min_first_sample(s) == IF Len(s) = 0 THEN EmptyInput ELSE Ok(F(s[1]))

min(s) == IF Len(s) = 0 THEN EmptyInput ELSE Ok(F(s[fold_min(s, 1, 1)]))

argmin(s) == IF Len(s) = 0 THEN EmptyInput ELSE Ok(<<fold_min(s, 1, 1) - 1>>)

max(s) == IF Len(s) = 0 THEN EmptyInput ELSE Ok(F(s[fold_max(s, 1, 1)]))

argmax(s) == IF Len(s) = 0 THEN EmptyInput ELSE Ok(<<fold_max(s, 1, 1) - 1>>)

\* Mutant of mean: the quotient is formed for the empty container as well
\* (0.0 / 0.0, a NaN inside Some).
mean_divides_always(s) == Ok(f64_div(F(iter_sum(s)), F(Len(s))))

\* Array1::mean: None for the empty array, otherwise sum / n.
mean(s) ==
    IF Len(s) = 0 THEN None
    ELSE Ok(f64_div(F(iter_sum(s)), F(Len(s))))

range(s) ==
    LET mn == min(s)
        mx == max(s)
    IN  IF mn.kind # "ok" THEN mn
        ELSE IF mx.kind # "ok" THEN mx
        ELSE Ok(<<mn.val, mx.val>>)

p2p(s) ==
    LET mx == max(s)
        mn == min(s)
    IN  IF mx.kind # "ok" THEN mx
        ELSE IF mn.kind # "ok" THEN mn
        ELSE Ok(f64_sub(mx.val, mn.val))

\* iter().map(|&x| x.powf(2.)).sum()
iter_squares(s) == [k \in 1..Len(s) |-> s[k] * s[k]]

energy(s) == Ok(F(iter_sum(iter_squares(s))))

avg_power(s) == Ok(f64_div(energy(s).val, F(Len(s))))

StatNames == {"sum", "min", "argmin", "max", "argmax", "mean", "range",
              "p2p", "energy", "avg_power"}

statistic(s, name) ==
    CASE name = "sum" -> sum(s)
      [] name = "min" -> min(s)
      [] name = "argmin" -> argmin(s)
      [] name = "max" -> max(s)
      [] name = "argmax" -> argmax(s)
      [] name = "mean" -> mean(s)
      [] name = "range" -> range(s)
      [] name = "p2p" -> p2p(s)
      [] name = "energy" -> energy(s)
      [] name = "avg_power" -> avg_power(s)

\* ------------------------------------------------------------ state machine
\* Pad widths: the small ones, whose results are built, and widths around
\* 2^62, 2^63 and 2^64, where the capacity tests and the wrap-around decide.
\* No width lies between 2^30 and 2^60, where the outcome depends on how
\* much memory the machine has.
BigWidths ==
    { <<Limb - 1, Limb - 1, Limb - 1, (Limb \div 4) - 1>>,   \* 2^62 - 1
      <<0, 0, 0, Limb \div 4>>,                              \* 2^62
      <<Limb - 2, Limb - 1, Limb - 1, (Limb \div 2) - 1>>,   \* 2^63 - 2
      ISIZE_MAX,                                             \* 2^63 - 1
      <<0, 0, 0, Limb \div 2>>,                              \* 2^63
      <<Limb - 1, Limb - 1, Limb - 1, Limb - 1>> }           \* 2^64 - 1

PadWidths == {ToUsize(n) : n \in 0..MaxPad} \cup BigWidths

NoCall == [op |-> "new", pre |-> <<>>, i |-> 0, j |-> 0, side |-> "-",
           c |-> 0, w |-> ToUsize(0), res |-> Ok(<<>>)]

\* SignalBase::from_vec(v), built with or without overflow checks.
Init ==
    /\ sig \in Containers
    /\ overflow_checks \in BOOLEAN
    /\ last = [NoCall EXCEPT !.pre = sig]

\* container[i]
IndexRead(i) ==
    /\ last' = [NoCall EXCEPT !.op = "index", !.pre = sig, !.i = i,
                              !.res = index(sig, i)]
    /\ UNCHANGED <<sig, overflow_checks>>

\* container[i] = v
IndexWrite(i, v) ==
    LET m == index_mut(sig, i)
    IN  /\ sig' = IF m.panic THEN sig ELSE [sig EXCEPT ![m.pos + 1] = v]
        /\ last' = [NoCall EXCEPT !.op = "index_mut", !.pre = sig, !.i = i,
                                  !.c = v,
                                  !.res = IF m.panic
                                          THEN Panic("Index out of bound")
                                          ELSE Ok(<<>>)]
        /\ UNCHANGED overflow_checks

\* The closures handed to iter_mut loops and to map_inplace, as tables over
\* the sample values: x -> 4 - x, x -> 2 and x -> x.
SampleFnNames == {"flip", "two", "keep"}

SampleFn(name) ==
    CASE name = "flip" -> [x \in Vals |-> 4 - x]
      [] name = "two" -> [x \in Vals |-> 2]
      [] name = "keep" -> [x \in Vals |-> x]

\* iter_mut: mutable references to the samples, in physical order; the
\* effect of `for x in s.iter_mut().take(m) { *x = f(*x) }`.
iter_mut(s, f, m) ==
    [self |-> [k \in 1..Len(s) |-> IF k <= m THEN f[s[k]] ELSE s[k]],
     out |-> Ok(<<>>)]

\* map_inplace(f): f rewrites every sample where it is.
map_inplace(s, f) ==
    [self |-> [k \in 1..Len(s) |-> f[s[k]]], out |-> Ok(<<>>)]

\* as_mut_slice: Some(slice) over all the samples in physical order; the
\* array is owned and contiguous, so the answer is never None.
as_mut_slice(s) == Ok(s)

SliceWrites == {"reverse", "fill"}

\* What the caller does with the slice: reverse() or fill(v).
slice_write(slice, name, v) ==
    CASE name = "reverse" -> Rev(slice)
      [] name = "fill" -> [k \in 1..Len(slice) |-> v]

\* for x in sig.iter_mut().take(m) { *x = f(*x) }; the closure is kept in
\* `side`, m in `i`.
IterMut(name, m) ==
    LET eff == iter_mut(sig, SampleFn(name), m)
    IN  /\ sig' = eff.self
        /\ last' = [NoCall EXCEPT !.op = "iter_mut", !.pre = sig,
                                  !.side = name, !.i = m, !.res = eff.out]
        /\ UNCHANGED overflow_checks

\* sig.map_inplace(f)
MapInplace(name) ==
    LET eff == map_inplace(sig, SampleFn(name))
    IN  /\ sig' = eff.self
        /\ last' = [NoCall EXCEPT !.op = "map_inplace", !.pre = sig,
                                  !.side = name, !.res = eff.out]
        /\ UNCHANGED overflow_checks

\* sig.as_mut_slice().unwrap().reverse() or .fill(v)
AsMutSlice(name, v) ==
    LET slice == as_mut_slice(sig)
    IN  /\ sig' = slice_write(slice.val, name, v)
        /\ last' = [NoCall EXCEPT !.op = "as_mut_slice", !.pre = sig,
                                  !.side = name, !.c = v, !.res = slice]
        /\ UNCHANGED overflow_checks

CutFrom(from) ==
    /\ last' = [NoCall EXCEPT !.op = "cut_from", !.pre = sig, !.i = from,
                              !.res = cut_from(sig, from, overflow_checks)]
    /\ UNCHANGED <<sig, overflow_checks>>

CutTo(to) ==
    /\ last' = [NoCall EXCEPT !.op = "cut_to", !.pre = sig, !.j = to,
                              !.res = cut_to(sig, to, overflow_checks)]
    /\ UNCHANGED <<sig, overflow_checks>>

CutFromTo(from, to) ==
    /\ last' = [NoCall EXCEPT !.op = "cut_from_to", !.pre = sig, !.i = from,
                              !.j = to,
                              !.res = cut_from_to(sig, from, to, overflow_checks)]
    /\ UNCHANGED <<sig, overflow_checks>>

PadCons(side, c, w) ==
    /\ last' = [NoCall EXCEPT !.op = "pad_cons", !.pre = sig, !.side = side,
                              !.c = c, !.w = w,
                              !.res = pad_cons(sig, side, c, w, overflow_checks)]
    /\ UNCHANGED <<sig, overflow_checks>>

PadWrap(side, w) ==
    /\ last' = [NoCall EXCEPT !.op = "pad_wrap", !.pre = sig, !.side = side,
                              !.w = w,
                              !.res = pad_wrap(sig, side, w, overflow_checks)]
    /\ UNCHANGED <<sig, overflow_checks>>

WindowSizes == 0..(MaxLen + 1)

\* windows(size), collected
Windows(size) ==
    /\ last' = [NoCall EXCEPT !.op = "windows", !.pre = sig, !.i = size,
                              !.res = windows(sig, size)]
    /\ UNCHANGED <<sig, overflow_checks>>

Diff ==
    /\ last' = [NoCall EXCEPT !.op = "diff", !.pre = sig, !.res = diff(sig)]
    /\ UNCHANGED <<sig, overflow_checks>>

RevCall ==
    /\ last' = [NoCall EXCEPT !.op = "rev", !.pre = sig, !.res = rev(sig)]
    /\ UNCHANGED <<sig, overflow_checks>>

\* sum(), min(), ... avg_power(): the name of the statistic is kept in `side`.
Statistic(name) ==
    /\ last' = [NoCall EXCEPT !.op = "statistic", !.pre = sig, !.side = name,
                              !.res = statistic(sig, name)]
    /\ UNCHANGED <<sig, overflow_checks>>

Next ==
    \/ \E i \in Indices : IndexRead(i)
    \/ \E i \in Indices, v \in Vals : IndexWrite(i, v)
    \/ \E name \in SampleFnNames, m \in 0..MaxLen : IterMut(name, m)
    \/ \E name \in SampleFnNames : MapInplace(name)
    \/ \E name \in SliceWrites, v \in Vals : AsMutSlice(name, v)
    \/ \E i \in Indices : CutFrom(i)
    \/ \E i \in Indices : CutTo(i)
    \/ \E i \in Indices, j \in Indices : CutFromTo(i, j)
    \/ \E side \in Sides, c \in ConsVals, w \in PadWidths : PadCons(side, c, w)
    \/ \E side \in Sides, w \in PadWidths : PadWrap(side, w)
    \/ \E size \in WindowSizes : Windows(size)
    \/ Diff
    \/ RevCall
    \/ \E name \in StatNames : Statistic(name)

Spec == Init /\ [][Next]_vars

\* ------------------------------------------------------------ constructors
\* Array1::from_vec takes the vector over as the array's storage: sample k
\* of the container is element k of the vector.
from_vec(signal) == [k \in 1..Len(signal) |-> signal[k]]

\* Array1::to_vec copies the samples into a new vector, one by one in
\* logical order.
to_vec(s) == [k \in 1..Len(s) |-> s[k]]

from_len_fn(len, f) == [k \in 1..len |-> f[k - 1]]

\* AsPrimitive::as_ of a small integer is the f64 of the same value.
as_f64(x) == x

from_iter(items) == [k \in 1..Len(items) |-> as_f64(items[k])]

zeros(len) == [k \in 1..len |-> 0]

ones(len) == [k \in 1..len |-> 1]

\* Mutant of linspace: the step divides by len instead of len - 1.
linspace_step_by_len(start, end, len) ==
    LET step == IF len > 1
                THEN f64_div(f64_sub(end, start), F(len))
                ELSE F(0)
    IN  Ok([k \in 1..len |-> f64_add(start, f64_mul(step, F(k - 1)))])

\* Array1::linspace: step = (end - start) / (len - 1) for len > 1 and 0
\* otherwise; sample i is start + step * i.
linspace(start, end, len) ==
    LET step == IF len > 1
                THEN f64_div(f64_sub(end, start), F(len - 1))
                ELSE F(0)
    IN  Ok([k \in 1..len |-> f64_add(start, f64_mul(step, F(k - 1)))])

\* Array1::range: ceil((end - start) / step) samples start + step * i; the
\* conversion of that count to usize fails, with a panic, when it is negative,
\* infinite or NaN.
arrange(start, end_exclude, step) ==
    LET q == f64_div(f64_sub(end_exclude, start), step)
    IN  IF q[2] = 0 \/ f64_ceil(q) < 0
        THEN Panic("Converting the length to usize must not fail")
        ELSE Ok([k \in 1..f64_ceil(q) |->
                    f64_add(start, f64_mul(step, F(k - 1)))])

\* The index functions handed to from_len_fn: i -> 2 i and i -> i + 1.
IndexFns == {[i \in 0..MaxLen |-> 2 * i], [i \in 0..MaxLen |-> i + 1]}

Lens == 0..MaxLen

LinVals == {<<0, 1>>, <<1, 2>>, <<1, 1>>, <<2, 1>>}

Steps == {<<1, 2>>, <<1, 1>>, <<-1, 1>>, <<0, 1>>}

NoCtor == [op |-> "new", v |-> <<>>, n |-> 0, e |-> 0, f |-> <<>>,
           start |-> <<0, 1>>, end |-> <<0, 1>>, step |-> <<0, 1>>,
           res |-> Ok(<<>>)]

\* The state before any constructor call of interest: an empty container.
InitNew ==
    /\ sig = from_vec(<<>>)
    /\ overflow_checks \in BOOLEAN
    /\ last = NoCtor

\* Each constructor call below binds the container it returns to sig; a
\* panic leaves the old one.
FromVec(v) ==
    LET res == Ok(from_vec(v))
    IN  /\ sig' = IF res.kind = "ok" THEN res.val ELSE sig
        /\ last' = [NoCtor EXCEPT !.op = "from_vec", !.v = v,
                            !.res = res]
        /\ UNCHANGED overflow_checks

FromElem(e, n) ==
    LET res == from_elem(e, ToUsize(n))
    IN  /\ sig' = IF res.kind = "ok" THEN res.val ELSE sig
        /\ last' = [NoCtor EXCEPT !.op = "from_elem", !.e = e, !.n = n,
                            !.res = res]
        /\ UNCHANGED overflow_checks

FromLenFn(n, f) ==
    LET res == Ok(from_len_fn(n, f))
    IN  /\ sig' = IF res.kind = "ok" THEN res.val ELSE sig
        /\ last' = [NoCtor EXCEPT !.op = "from_len_fn", !.n = n, !.f = f,
                            !.res = res]
        /\ UNCHANGED overflow_checks

FromIter(v) ==
    LET res == Ok(from_iter(v))
    IN  /\ sig' = IF res.kind = "ok" THEN res.val ELSE sig
        /\ last' = [NoCtor EXCEPT !.op = "from_iter", !.v = v,
                            !.res = res]
        /\ UNCHANGED overflow_checks

Zeros(n) ==
    LET res == Ok(zeros(n))
    IN  /\ sig' = IF res.kind = "ok" THEN res.val ELSE sig
        /\ last' = [NoCtor EXCEPT !.op = "zeros", !.n = n,
                            !.res = res]
        /\ UNCHANGED overflow_checks

Ones(n) ==
    LET res == Ok(ones(n))
    IN  /\ sig' = IF res.kind = "ok" THEN res.val ELSE sig
        /\ last' = [NoCtor EXCEPT !.op = "ones", !.n = n,
                            !.res = res]
        /\ UNCHANGED overflow_checks

Linspace(start, end, n) ==
    LET res == linspace(start, end, n)
    IN  /\ sig' = IF res.kind = "ok" THEN res.val ELSE sig
        /\ last' = [NoCtor EXCEPT !.op = "linspace", !.start = start, !.end = end, !.n = n,
                            !.res = res]
        /\ UNCHANGED overflow_checks

Arrange(start, end, step) ==
    LET res == arrange(start, end, step)
    IN  /\ sig' = IF res.kind = "ok" THEN res.val ELSE sig
        /\ last' = [NoCtor EXCEPT !.op = "arrange", !.start = start, !.end = end, !.step = step,
                            !.res = res]
        /\ UNCHANGED overflow_checks

\* Mutant of next: the call consumes the sample it returns.
next_advances(s) ==
    [self |-> IF Len(s) = 0 THEN s ELSE Tail(s),
     out |-> IF Len(s) = 0 THEN None ELSE Ok(s[1])]

\* Iterator::next: `self.base.iter().next().copied()` builds a new iterator
\* over the array on every call and steps it once; nothing is kept between
\* calls and the array is only read.
next(s) ==
    [self |-> s, out |-> IF Len(s) = 0 THEN None ELSE Ok(s[1])]

\* sig.next(); the container before the call is kept in `v`.
IterNext ==
    LET eff == next(sig)
    IN  /\ sig' = eff.self
        /\ last' = [NoCtor EXCEPT !.op = "next", !.v = sig,
                                 !.res = eff.out]
        /\ UNCHANGED overflow_checks

NextNew ==
    \/ \E v \in Containers : FromVec(v)
    \/ \E e \in ConsVals, n \in Lens : FromElem(e, n)
    \/ \E n \in Lens, f \in IndexFns : FromLenFn(n, f)
    \/ \E v \in Containers : FromIter(v)
    \/ \E n \in Lens : Zeros(n)
    \/ \E n \in Lens : Ones(n)
    \/ \E start \in LinVals, end \in LinVals, n \in Lens :
          Linspace(start, end, n)
    \/ \E start \in LinVals, end \in LinVals, step \in Steps :
          Arrange(start, end, step)
    \/ IterNext

SpecNew == InitNew /\ [][NextNew]_vars

\* -------------------------------------------------------------- arithmetic
\* In the arithmetic specification every sample is a fraction <<p, q>>.
\* An operation is modelled by its effect: the operands after the call
\* (`self`, `other`) and what the call returns or how it ends (`out`).
Ops == {"add", "sub", "mul", "div"}

f64_op(op, x, y) ==
    CASE op = "add" -> f64_add(x, y)
      [] op = "sub" -> f64_sub(x, y)
      [] op = "mul" -> f64_mul(x, y)
      [] op = "div" -> f64_div(x, y)

ShapePanic == Panic("ndarray: could not broadcast array")

\* Mutant of elementwise: the operands of the operator are exchanged.
elementwise_swapped(op, a, b) ==
    [self |-> a, other |-> b,
     out |-> IF Len(a) = Len(b)
             THEN Ok([k \in 1..Len(a) |-> f64_op(op, b[k], a[k])])
             ELSE IF Len(a) = 1
             THEN Ok([k \in 1..Len(b) |-> f64_op(op, b[k], a[1])])
             ELSE IF Len(b) = 1
             THEN Ok([k \in 1..Len(a) |-> f64_op(op, b[1], a[k])])
             ELSE ShapePanic]

\* `&self.base op &other.base`: ndarray pairs equal shapes element by
\* element; for unequal shapes it broadcasts the two operands to a common
\* shape, which exists when one of them has length 1, and panics otherwise.
\* Both operands are borrowed and the result is a new array.
elementwise(op, a, b) ==
    [self |-> a, other |-> b,
     out |-> IF Len(a) = Len(b)
             THEN Ok([k \in 1..Len(a) |-> f64_op(op, a[k], b[k])])
             ELSE IF Len(a) = 1
             THEN Ok([k \in 1..Len(b) |-> f64_op(op, a[1], b[k])])
             ELSE IF Len(b) = 1
             THEN Ok([k \in 1..Len(a) |-> f64_op(op, a[k], b[1])])
             ELSE ShapePanic]

\* Mutant of elementwise_assign: the operands of the operator are exchanged.
elementwise_assign_swapped(op, a, b) ==
    IF Len(a) = Len(b)
    THEN [self |-> [k \in 1..Len(a) |-> f64_op(op, b[k], a[k])],
          other |-> b, out |-> Ok(<<>>)]
    ELSE IF Len(b) = 1
    THEN [self |-> [k \in 1..Len(a) |-> f64_op(op, b[1], a[k])],
          other |-> b, out |-> Ok(<<>>)]
    ELSE [self |-> a, other |-> b, out |-> ShapePanic]

\* `self.base op= &other.base`: ndarray broadcasts the right operand to the
\* shape of the left one, which is possible for equal lengths and for a right
\* operand of length 1, and panics otherwise, before anything is written.
elementwise_assign(op, a, b) ==
    IF Len(a) = Len(b)
    THEN [self |-> [k \in 1..Len(a) |-> f64_op(op, a[k], b[k])],
          other |-> b, out |-> Ok(<<>>)]
    ELSE IF Len(b) = 1
    THEN [self |-> [k \in 1..Len(a) |-> f64_op(op, a[k], b[1])],
          other |-> b, out |-> Ok(<<>>)]
    ELSE [self |-> a, other |-> b, out |-> ShapePanic]

\* map(f): a new container holding f of every sample; f is given as a table.
map(s, f) == Ok([k \in 1..Len(s) |-> f[s[k]]])

\* `&self.base op other.as_()`
scalar(op, a, s) ==
    [self |-> a,
     out |-> Ok([k \in 1..Len(a) |-> f64_op(op, a[k], F(as_f64(s)))])]

\* Mutant of scalar_assign: the last sample is dropped.
scalar_assign_drops_last(op, a, s) ==
    [self |-> [k \in 1..(Len(a) - 1) |-> f64_op(op, a[k], F(as_f64(s)))],
     out |-> Ok(<<>>)]

\* `self.base op= other.as_()`
scalar_assign(op, a, s) ==
    [self |-> [k \in 1..Len(a) |-> f64_op(op, a[k], F(as_f64(s)))],
     out |-> Ok(<<>>)]

\* Signal's operators hand their operands' SignalBase to the operators above
\* and wrap what is returned.
signal_elementwise(op, a, b) == elementwise(op, a, b)

signal_elementwise_assign(op, a, b) == elementwise_assign(op, a, b)

signal_scalar(op, a, s) == scalar(op, a, s)

signal_scalar_assign(op, a, s) == scalar_assign(op, a, s)

ArithVals == {<<1, 1>>, <<2, 1>>}

Scalars == {2, 4}

ArithContainers == UNION {[1..n -> ArithVals] : n \in 0..MaxArithLen}

ArithIndices == -(MaxArithLen + 1)..MaxArithLen

\* Calls are explored on containers whose samples are still in ArithVals;
\* this bounds the values that repeated in-place arithmetic can reach.
Bounded(s) == \A k \in 1..Len(s) : s[k] \in ArithVals

\* A returned container has been followed through one mutation, of itself or
\* of its source. A call on the source then replaces `last` entirely and
\* leads to a state that the same call reaches from InitArith, so the
\* exploration does not go on from here.
Followed ==
    \/ last.form \in {"write_self", "write_ret", "assign_ret"}
    \/ /\ last.form \in {"assign", "assign_scalar", "mutate"}
       /\ last.ret.kind = "ok"

\* The source container can be called.
Callable == Bounded(sig) /\ ~Followed

\* `ret` is the container the last value-returning call returned, kept by
\* the caller next to the source; `other` is the second operand.
\* `storage` says where the samples of `ret` live.
NoArith == [op |-> "new", form |-> "-", pre |-> <<>>, other_pre |-> <<>>,
            other |-> <<>>, s |-> 0, i |-> 0, c |-> <<0, 1>>, f |-> "-",
            res |-> Ok(<<>>), ret_pre |-> None, ret |-> None,
            storage |-> "-"]

\* Mutant of result_storage: windows hands out the windows of the array as
\* they are, views into the receiver, without to_owned.
result_storage_windows_view(name) ==
    CASE name \in Ops -> "owned"
      [] name = "map" -> "owned"
      [] name \in {"cut_from", "cut_to", "cut_from_to"} -> "owned"
      [] name = "windows" -> "view"
      [] name \in {"pad_cons", "pad_wrap"} -> "owned"
      [] name = "diff" -> "owned"
      [] name = "rev" -> "owned"
      [] name \in StatNames -> "none"

\* Where the value an operation returns keeps its samples: "owned" is an
\* array of its own, "view" would be the storage of the receiver, "none" is
\* a result that is no container. Every operation builds its result into a
\* new Array1: the arithmetic on &a.base and &b.base or a scalar returns a
\* new array, map calls Array1::map, the cuts, rev and diff collect an
\* iterator of copied samples with from_iter, windows copies each window
\* with to_owned, pad_cons concatenates and pad_wrap collects or
\* concatenates. The statistics return numbers, positions and pairs.
result_storage(name) ==
    CASE name \in Ops -> "owned"
      [] name = "map" -> "owned"
      [] name \in {"cut_from", "cut_to", "cut_from_to"} -> "owned"
      [] name = "windows" -> "owned"
      [] name \in {"pad_cons", "pad_wrap"} -> "owned"
      [] name = "diff" -> "owned"
      [] name = "rev" -> "owned"
      [] name \in StatNames -> "none"

\* The effect of a method that takes &self and returns r: the receiver is
\* read and stays as it is, r is kept where result_storage says.
by_ref(s, name, r) ==
    [self |-> s, out |-> r, storage |-> result_storage(name)]

\* What a returned container r reads once its source has become s: an owned
\* container keeps its samples, a view reads the samples of the source.
ret_after_source(r, storage, s) ==
    IF r.kind = "ok" /\ storage = "view" THEN Ok(s) ELSE r

\* What the source s holds once the returned container has been written and
\* reads w: a write to an owned container stays there, a write through a
\* view lands in the source.
source_after_ret(s, storage, w) ==
    IF storage = "view" THEN w ELSE s

\* A sample with a whole value n is the fraction <<n, 1>>; diff and the
\* statistics are computed on the whole values.
whole(s) == [k \in 1..Len(s) |-> s[k][1]]

fractions(s) == [k \in 1..Len(s) |-> F(s[k])]

InitArith ==
    /\ sig \in ArithContainers
    /\ overflow_checks \in BOOLEAN
    /\ last = [NoArith EXCEPT !.pre = sig]

\* r = &sig op &b
Elementwise(op, b) ==
    LET eff == elementwise(op, sig, b)
    IN  /\ Callable
        /\ sig' = eff.self
        /\ last' = [NoArith EXCEPT !.op = op, !.form = "value", !.pre = sig,
                                  !.other_pre = b, !.other = eff.other,
                                  !.res = eff.out,
                                  !.ret_pre = eff.out, !.ret = eff.out,
                                  !.storage = result_storage(op)]
        /\ UNCHANGED overflow_checks

\* r = &sig op &s
Scalar(op, s) ==
    LET eff == scalar(op, sig, s)
    IN  /\ Callable
        /\ sig' = eff.self
        /\ last' = [NoArith EXCEPT !.op = op, !.form = "value_scalar",
                                  !.pre = sig, !.s = s, !.res = eff.out,
                                  !.ret_pre = eff.out, !.ret = eff.out,
                                  !.storage = result_storage(op)]
        /\ UNCHANGED overflow_checks

\* The methods that return one container. windows, which returns several,
\* and the statistics, which return none, have actions of their own below.
Transforms == {"rev", "map", "cut_from", "cut_to", "cut_from_to",
               "pad_cons", "pad_wrap", "diff"}

Doubled == [x \in ArithVals |-> f64_mul(x, F(2))]

\* One of the transformations that return a container, with argument i.
transform(s, name, i, oc) ==
    CASE name = "rev" -> rev(s)
      [] name = "map" -> map(s, Doubled)
      [] name = "cut_from" -> cut_from(s, i, oc)
      [] name = "cut_to" -> cut_to(s, i, oc)
      [] name = "cut_from_to" -> cut_from_to(s, 0, i, oc)
      [] name = "pad_cons" -> pad_cons(s, "Both", F(0), ToUsize(1), oc)
      [] name = "pad_wrap" -> pad_wrap(s, "Right", ToUsize(MaxArithLen), oc)
      [] name = "diff" -> LET d == diff(whole(s))
                          IN  IF d.kind = "ok" THEN Ok(fractions(d.val))
                              ELSE d

\* r = sig.rev(), sig.map(f), sig.cut_from(i), sig.diff(), ...
Transform(name, i) ==
    LET eff == by_ref(sig, name, transform(sig, name, i, overflow_checks))
    IN  /\ Callable
        /\ sig' = eff.self
        /\ last' = [NoArith EXCEPT !.op = name, !.form = "transform",
                                  !.pre = sig, !.i = i, !.res = eff.out,
                                  !.ret_pre = eff.out, !.ret = eff.out,
                                  !.storage = eff.storage]
        /\ UNCHANGED overflow_checks

ArithWindowSizes == 0..(MaxArithLen + 1)

\* The k-th of the containers that windows returned, if there is one.
kth_window(res, k) ==
    IF res.kind = "ok" /\ k <= Len(res.val) THEN Ok(res.val[k]) ELSE None

\* w = sig.windows(size).collect(); the caller keeps window k as r. The
\* size is kept in `i`, k in `s`.
WindowsArith(size, k) ==
    LET eff == by_ref(sig, "windows", windows(sig, size))
        r == kth_window(eff.out, k)
    IN  /\ Callable
        /\ sig' = eff.self
        /\ last' = [NoArith EXCEPT !.op = "windows", !.form = "windows",
                                  !.pre = sig, !.i = size, !.s = k,
                                  !.res = eff.out,
                                  !.ret_pre = r, !.ret = r,
                                  !.storage = eff.storage]
        /\ UNCHANGED overflow_checks

\* sig.sum(), sig.min(), ... sig.avg_power(): the name of the statistic is
\* kept in `op`; nothing is returned that could be written to.
StatisticArith(name) ==
    LET eff == by_ref(sig, name, statistic(whole(sig), name))
    IN  /\ Callable
        /\ sig' = eff.self
        /\ last' = [NoArith EXCEPT !.op = name, !.form = "statistic",
                                  !.pre = sig, !.res = eff.out,
                                  !.storage = eff.storage]
        /\ UNCHANGED overflow_checks

\* The container returned by the call before, if the caller still has one.
LiveRet == IF /\ last.form \in {"value", "value_scalar", "transform",
                                "windows"}
              /\ last.res.kind = "ok"
           THEN last.ret ELSE None

\* The returned container that the caller holds once the source is s.
HeldRet(s) == ret_after_source(LiveRet, last.storage, s)

\* sig op= &b
ElementwiseAssign(op, b) ==
    LET eff == elementwise_assign(op, sig, b)
    IN  /\ Callable
        /\ sig' = eff.self
        /\ last' = [NoArith EXCEPT !.op = op, !.form = "assign", !.pre = sig,
                                  !.other_pre = b, !.other = eff.other,
                                  !.res = eff.out,
                                  !.ret_pre = LiveRet,
                                  !.ret = HeldRet(eff.self),
                                  !.storage = last.storage]
        /\ UNCHANGED overflow_checks

\* sig op= &s
ScalarAssign(op, s) ==
    LET eff == scalar_assign(op, sig, s)
    IN  /\ Callable
        /\ sig' = eff.self
        /\ last' = [NoArith EXCEPT !.op = op, !.form = "assign_scalar",
                                  !.pre = sig, !.s = s, !.res = eff.out,
                                  !.ret_pre = LiveRet,
                                  !.ret = HeldRet(eff.self),
                                  !.storage = last.storage]
        /\ UNCHANGED overflow_checks

\* sig[i] = v, while the caller holds a returned container
WriteSelf(i, v) ==
    LET m == index_mut(sig, i)
        w == IF m.panic THEN sig ELSE [sig EXCEPT ![m.pos + 1] = v]
    IN  /\ Callable
        /\ LiveRet.kind = "ok"
        /\ sig' = w
        /\ last' = [NoArith EXCEPT !.op = "index_mut", !.form = "write_self",
                                  !.pre = sig, !.i = i, !.c = v,
                                  !.res = IF m.panic
                                          THEN Panic("Index out of bound")
                                          ELSE Ok(<<>>),
                                  !.ret_pre = LiveRet, !.ret = HeldRet(w),
                                  !.storage = last.storage]
        /\ UNCHANGED overflow_checks

\* r[i] = v on the returned container r
WriteRet(i, v) ==
    LET r == LiveRet
        m == index_mut(r.val, i)
        w == IF m.panic THEN r.val ELSE [r.val EXCEPT ![m.pos + 1] = v]
    IN  /\ r.kind = "ok"
        /\ sig' = source_after_ret(sig, last.storage, w)
        /\ last' = [NoArith EXCEPT !.op = "index_mut", !.form = "write_ret",
                                  !.pre = sig, !.i = i, !.c = v,
                                  !.res = IF m.panic
                                          THEN Panic("Index out of bound")
                                          ELSE Ok(<<>>),
                                  !.ret_pre = r, !.ret = Ok(w),
                                  !.storage = last.storage]
        /\ UNCHANGED overflow_checks

\* The closures handed to iter_mut loops and to map_inplace in the
\* arithmetic specification: x -> 3 - x, x -> 2 and x -> x.
ArithFn(name) ==
    CASE name = "flip" -> [x \in ArithVals |-> f64_sub(F(3), x)]
      [] name = "two" -> [x \in ArithVals |-> F(2)]
      [] name = "keep" -> [x \in ArithVals |-> x]

\* for x in sig.iter_mut().take(m) { *x = f(*x) }
IterMutArith(name, m) ==
    LET eff == iter_mut(sig, ArithFn(name), m)
    IN  /\ Callable
        /\ sig' = eff.self
        /\ last' = [NoArith EXCEPT !.op = "iter_mut", !.form = "mutate",
                                  !.pre = sig, !.f = name, !.i = m,
                                  !.res = eff.out,
                                  !.ret_pre = LiveRet,
                                  !.ret = HeldRet(eff.self),
                                  !.storage = last.storage]
        /\ UNCHANGED overflow_checks

\* sig.map_inplace(f)
MapInplaceArith(name) ==
    LET eff == map_inplace(sig, ArithFn(name))
    IN  /\ Callable
        /\ sig' = eff.self
        /\ last' = [NoArith EXCEPT !.op = "map_inplace", !.form = "mutate",
                                  !.pre = sig, !.f = name, !.res = eff.out,
                                  !.ret_pre = LiveRet,
                                  !.ret = HeldRet(eff.self),
                                  !.storage = last.storage]
        /\ UNCHANGED overflow_checks

\* sig.as_mut_slice().unwrap().reverse() or .fill(v)
AsMutSliceArith(name, v) ==
    LET slice == as_mut_slice(sig)
        w == slice_write(slice.val, name, v)
    IN  /\ Callable
        /\ sig' = w
        /\ last' = [NoArith EXCEPT !.op = "as_mut_slice", !.form = "mutate",
                                  !.pre = sig, !.f = name, !.c = v,
                                  !.res = slice,
                                  !.ret_pre = LiveRet, !.ret = HeldRet(w),
                                  !.storage = last.storage]
        /\ UNCHANGED overflow_checks

\* r op= &s on the returned container r
ScalarAssignRet(op, s) ==
    LET r == LiveRet
        eff == scalar_assign(op, r.val, s)
    IN  /\ r.kind = "ok"
        /\ sig' = source_after_ret(sig, last.storage, eff.self)
        /\ last' = [NoArith EXCEPT !.op = op, !.form = "assign_ret",
                                  !.pre = sig, !.s = s, !.res = eff.out,
                                  !.ret_pre = r, !.ret = Ok(eff.self),
                                  !.storage = last.storage]
        /\ UNCHANGED overflow_checks

NextArith ==
    \/ \E op \in Ops, b \in ArithContainers : Elementwise(op, b)
    \/ \E op \in Ops, s \in Scalars : Scalar(op, s)
    \/ \E op \in Ops, b \in ArithContainers : ElementwiseAssign(op, b)
    \/ \E op \in Ops, s \in Scalars : ScalarAssign(op, s)
    \/ \E i \in ArithIndices, v \in ArithVals : WriteSelf(i, v)
    \/ \E i \in ArithIndices, v \in ArithVals : WriteRet(i, v)
    \/ \E op \in Ops, s \in Scalars : ScalarAssignRet(op, s)
    \/ \E name \in SampleFnNames, m \in 0..MaxArithLen : IterMutArith(name, m)
    \/ \E name \in SampleFnNames : MapInplaceArith(name)
    \/ \E name \in SliceWrites, v \in ArithVals : AsMutSliceArith(name, v)
    \/ \E name \in Transforms, i \in ArithIndices : Transform(name, i)
    \/ \E size \in ArithWindowSizes, k \in 1..MaxArithLen :
          WindowsArith(size, k)
    \/ \E name \in StatNames : StatisticArith(name)

SpecArith == InitArith /\ [][NextArith]_vars

\* ------------------------------------------------------------------ claims
\* The physical position the specification gives a valid logical index.
Phys(n, i) == IF i >= 0 THEN i ELSE n + i

\* The other logical index of the same element.
Twin(n, i) == IF i >= 0 THEN i - n ELSE i + n

ValidIdx(n, i) == -n <= i /\ i < n

Const(c, w) == [k \in 1..w |-> c]

\* Whether the padded length, n + w or n + 2w, is larger than isize::MAX.
ResultTooLong(n, side, w) ==
    LET a == UsizeAdd(ToUsize(n), w)
        b == UsizeAdd(a.val, w)
    IN  IF side = "Both"
        THEN a.ovf \/ b.ovf \/ UsizeGt(b.val, ISIZE_MAX)
        ELSE a.ovf \/ UsizeGt(a.val, ISIZE_MAX)

\* C1: a read or write through a valid logical index i reaches physical
\* position i (i >= 0) or n + i (i < 0); container[i] = container[i - n] for
\* every 0 <= i < n, and a write through one index is read back through both.
C1_IndexPhysicalPosition ==
    LET n == Len(last.pre)
    IN  /\ (last.op = "index" /\ ValidIdx(n, last.i))
              => last.res = Ok(<<last.pre[Phys(n, last.i) + 1]>>)
        /\ (last.op = "index_mut" /\ ValidIdx(n, last.i))
              => /\ last.res.kind = "ok"
                 /\ sig = [last.pre EXCEPT ![Phys(n, last.i) + 1] = last.c]
                 /\ index(sig, last.i) = Ok(<<last.c>>)
                 /\ index(sig, Twin(n, last.i)) = Ok(<<last.c>>)
        /\ \A i \in 0..(Len(sig) - 1) :
              /\ index(sig, i) = Ok(<<sig[i + 1]>>)
              /\ index(sig, i - Len(sig)) = index(sig, i)

C1_Witness ==
    /\ last.op = "index_mut"
    /\ last.i < -1
    /\ last.res.kind = "ok"
    /\ sig # last.pre
    /\ Len(sig) = MaxLen

\* C2: pad_cons(Left, c, w) is w copies of c followed by the source, and
\* pad_cons(Right, c, w) is the source followed by w copies of c.
C2_PadConsLeftPrependsRightAppends ==
    (last.op = "pad_cons" /\ IsSmall(last.w))
       => /\ last.side = "Left"
             => last.res = Ok(Const(last.c, ToNat(last.w)) \o last.pre)
          /\ last.side = "Right"
             => last.res = Ok(last.pre \o Const(last.c, ToNat(last.w)))

\* C3: when pad_wrap(Left, w) or pad_wrap(Both, w) returns r, the first w
\* elements are the cyclic samples before index 0 in forward order,
\* r[j] = x[(j - w) mod n], followed by x.
C3_PadWrapLeftForwardOrder ==
    (last.op = "pad_wrap" /\ last.side \in {"Left", "Both"}
       /\ last.res.kind = "ok")
       => LET x == last.pre
              n == Len(x)
              w == ToNat(last.w)
              r == last.res.val
          IN  /\ Len(r) >= w + n
              /\ \A j \in 0..(w - 1) : r[j + 1] = x[((j - w) % n) + 1]
              /\ \A k \in 0..(n - 1) : r[w + k + 1] = x[k + 1]

\* C4: when pad_wrap(Right, w) or pad_wrap(Both, w) returns r, r holds x
\* followed by exactly w elements, the k-th of them x[k mod n]; a width that
\* is a multiple of n appends w/n full copies of x.
C4_PadWrapRightContinues ==
    (last.op = "pad_wrap" /\ last.side \in {"Right", "Both"}
       /\ last.res.kind = "ok")
       => LET x == last.pre
              n == Len(x)
              w == ToNat(last.w)
              r == last.res.val
              off == IF last.side = "Both" THEN w ELSE 0
          IN  /\ Len(r) = off + n + w
              /\ \A k \in 0..(n - 1) : r[off + k + 1] = x[k + 1]
              /\ \A k \in 0..(w - 1) : r[off + n + k + 1] = x[(k % n) + 1]

C4_Witness ==
    /\ last.op = "pad_wrap"
    /\ last.side = "Right"
    /\ last.res.kind = "ok"
    /\ Len(last.pre) = 3
    /\ ToNat(last.w) = 5
    /\ last.pre[1] # last.pre[2]

\* C5: on a non-empty container pad_wrap succeeds for every side and every
\* width whose result length fits isize, with length n + w (Left, Right) or
\* n + 2w (Both).
C5_PadWrapSucceeds ==
    (last.op = "pad_wrap" /\ Len(last.pre) > 0
       /\ ~ResultTooLong(Len(last.pre), last.side, last.w))
       => /\ last.res.kind = "ok"
          /\ IsSmall(last.w)
          /\ Len(last.res.val) =
                Len(last.pre)
                + (IF last.side = "Both" THEN 2 ELSE 1) * ToNat(last.w)

\* C6: pad_cons(Both, c, w) has length n + 2w, its first w and last w
\* elements are c and its middle n elements are the source in order; with
\* w = 0 it equals the source.  It returns for every width that can be
\* allocated.
C6_PadConsBoth ==
    (last.op = "pad_cons" /\ last.side = "Both")
       => /\ IsSmall(last.w) => last.res.kind = "ok"
          /\ last.res.kind = "ok"
             => LET x == last.pre
                    n == Len(x)
                    w == ToNat(last.w)
                    r == last.res.val
                IN  /\ Len(r) = n + 2 * w
                    /\ \A k \in 1..w : r[k] = last.c /\ r[w + n + k] = last.c
                    /\ \A k \in 1..n : r[w + k] = x[k]
                    /\ w = 0 => r = x

C6_Witness ==
    /\ last.op = "pad_cons"
    /\ last.side = "Both"
    /\ last.res.kind = "ok"
    /\ Len(last.pre) >= 2
    /\ ToNat(last.w) >= 2

\* C7: pad_cons and pad_wrap return ResultOutOfBounds exactly when the
\* length of the result, n + w or n + 2w, exceeds isize::MAX, and computing
\* that length never overflows.
C7_CapacityErrorExact ==
    (last.op \in {"pad_cons", "pad_wrap"})
       => /\ (last.res = Err("ResultOutOfBounds"))
                <=> ResultTooLong(Len(last.pre), last.side, last.w)
          /\ last.res.err \notin {"attempt to add with overflow",
                                  "attempt to multiply with overflow"}

\* C8: pad_wrap on an empty container returns the empty-input error for
\* every side and every width.
C8_PadWrapEmptyInput ==
    (last.op = "pad_wrap" /\ Len(last.pre) = 0)
       => last.res = Err("ConcatenationError(Empty input)")

\* C9: an index outside -n..n-1 makes indexed read, indexed write, cut_from,
\* cut_to and cut_from_to panic, and the write leaves the container as it
\* was.
C9_InvalidIndexPanics ==
    LET n == Len(last.pre)
    IN  /\ (last.op \in {"index", "cut_from"} /\ ~ValidIdx(n, last.i))
              => last.res.kind = "panic" /\ sig = last.pre
        /\ (last.op = "index_mut" /\ ~ValidIdx(n, last.i))
              => last.res.kind = "panic" /\ sig = last.pre
        /\ (last.op = "cut_to" /\ ~ValidIdx(n, last.j))
              => last.res.kind = "panic"
        /\ (last.op = "cut_from_to"
              /\ (~ValidIdx(n, last.i) \/ ~ValidIdx(n, last.j)))
              => last.res.kind = "panic"

C9_Witness ==
    /\ last.op = "index_mut"
    /\ Len(last.pre) = 2
    /\ last.i = 2
    /\ last.res.kind = "panic"

\* C10: for valid bounds with p(from) <= p(to), cut_from_to(from, to) is the
\* source from position p(from) to p(to), both included; cut_from(from) is
\* cut_from_to(from, n - 1), cut_to(to) is cut_from_to(0, to); with
\* p(from) > p(to) cut_from_to panics.
C10_CutInclusiveRange ==
    LET x == last.pre
        n == Len(x)
        pf == Phys(n, last.i)
        pt == Phys(n, last.j)
    IN  /\ (last.op = "cut_from_to" /\ ValidIdx(n, last.i)
              /\ ValidIdx(n, last.j))
              => IF pf <= pt
                 THEN last.res = Ok([k \in 1..(pt - pf + 1) |-> x[pf + k]])
                 ELSE last.res.kind = "panic"
        /\ (last.op = "cut_from" /\ ValidIdx(n, last.i))
              => last.res = Ok([k \in 1..(n - pf) |-> x[pf + k]])
        /\ (last.op = "cut_to" /\ ValidIdx(n, last.j))
              => last.res = Ok([k \in 1..(pt + 1) |-> x[k]])

\* C11: windows(size) with 1 <= size <= n yields n - size + 1 containers of
\* length size, the k-th holding positions k..k+size-1; with size > n it
\* yields nothing; the source is unchanged and a second call yields the same
\* sequence.
C11_WindowsState ==
    (last.op = "windows")
       => LET x == last.pre
              n == Len(x)
              size == last.i
              r == last.res.val
          IN  /\ sig = x
              /\ (size >= 1 /\ size <= n)
                    => /\ last.res.kind = "ok"
                       /\ Len(r) = n - size + 1
                       /\ \A k \in 0..(n - size) :
                             /\ Len(r[k + 1]) = size
                             /\ \A j \in 0..(size - 1) :
                                   r[k + 1][j + 1] = x[k + j + 1]
              /\ size > n => last.res.kind = "ok" /\ Len(r) = 0

\* C11, with the second call: windows(size) on the container the first call
\* left yields the same sequence again.
C11_Windows ==
    /\ C11_WindowsState
    /\ last.op = "windows" => windows(sig, last.i) = last.res

C11_Witness ==
    /\ last.op = "windows"
    /\ Len(last.pre) = 3
    /\ last.i = 2
    /\ last.res.kind = "ok"
    /\ Len(last.res.val) = 2
    /\ last.res.val[1] # last.res.val[2]

\* C12: diff returns DiffShortLength exactly when n < 2; otherwise a
\* container of length n - 1 with result[i] = source[i+1] - source[i]; the
\* source is unchanged.
C12_Diff ==
    (last.op = "diff")
       => LET x == last.pre
              n == Len(x)
              r == last.res.val
          IN  /\ sig = x
              /\ (last.res = Err("DiffShortLength")) <=> (n < 2)
              /\ n >= 2
                    => /\ last.res.kind = "ok"
                       /\ Len(r) = n - 1
                       /\ \A i \in 1..(n - 1) : r[i] = x[i + 1] - x[i]
                       /\ (\A i \in 1..n : x[i] = x[1])
                             => \A i \in 1..(n - 1) : r[i] = 0

C12_Witness ==
    /\ last.op = "diff"
    /\ Len(last.pre) = 3
    /\ last.res.kind = "ok"
    /\ last.res.val[1] # last.res.val[2]

\* The sum of a sequence of integers, from the front.
RECURSIVE SumOf(_)
SumOf(s) == IF s = <<>> THEN 0 ELSE Head(s) + SumOf(Tail(s))

Squares(s) == [k \in 1..Len(s) |-> s[k] * s[k]]

Least(s, m) == (\E k \in 1..Len(s) : s[k] = m) /\ (\A k \in 1..Len(s) : s[k] >= m)

Greatest(s, m) == (\E k \in 1..Len(s) : s[k] = m) /\ (\A k \in 1..Len(s) : s[k] <= m)

\* C17: on an empty container min, max, argmin, argmax, range and p2p return
\* an error value, mean returns None and sum returns 0; none panics and none
\* changes the container.
C17_StatisticsOnEmpty ==
    (last.op = "statistic" /\ Len(last.pre) = 0)
       => /\ sig = last.pre
          /\ last.res.kind # "panic"
          /\ last.side \in {"min", "max", "argmin", "argmax", "range", "p2p"}
                => last.res.kind = "err"
          /\ last.side = "mean" => last.res = None
          /\ last.side = "sum" => last.res = Ok(<<0, 1>>)

C17_Witness ==
    /\ last.op = "statistic"
    /\ Len(last.pre) = 0
    /\ last.side = "mean"
    /\ last.res.kind = "none"

\* C18: on a non-empty container sum is the sum of the samples, mean is
\* sum / n, energy is the sum of the squares, avg_power is energy / n, min and
\* max are the least and greatest sample, x[argmin] = min, x[argmax] = max,
\* range = (min, max) and p2p = max - min >= 0.
C18_Statistics ==
    (last.op = "statistic" /\ Len(last.pre) > 0)
       => LET x == last.pre
              n == Len(x)
              v == last.res.val
              name == last.side
          IN  /\ last.res.kind = "ok"
              /\ name = "sum" => v = <<SumOf(x), 1>>
              /\ name = "mean" => f64_mul(v, <<n, 1>>) = <<SumOf(x), 1>>
              /\ name = "energy" => v = <<SumOf(Squares(x)), 1>>
              /\ name = "avg_power"
                    => f64_mul(v, <<n, 1>>) = <<SumOf(Squares(x)), 1>>
              /\ name = "min" => v[2] = 1 /\ Least(x, v[1])
              /\ name = "max" => v[2] = 1 /\ Greatest(x, v[1])
              /\ name = "argmin"
                    => v[1] \in 0..(n - 1) /\ Least(x, x[v[1] + 1])
              /\ name = "argmax"
                    => v[1] \in 0..(n - 1) /\ Greatest(x, x[v[1] + 1])
              /\ name = "range"
                    => /\ v[1][2] = 1 /\ Least(x, v[1][1])
                       /\ v[2][2] = 1 /\ Greatest(x, v[2][1])
              /\ name = "p2p"
                    => /\ v[2] = 1 /\ v[1] >= 0
                       /\ \E a \in 1..n, b \in 1..n :
                             /\ Least(x, x[a]) /\ Greatest(x, x[b])
                             /\ v[1] = x[b] - x[a]

C18_Witness ==
    /\ last.op = "statistic"
    /\ last.side = "min"
    /\ Len(last.pre) = 3
    /\ last.pre[1] > last.pre[2]
    /\ last.res.kind = "ok"

\* C20: rev succeeds on every container, the empty and the one-sample ones
\* included, with result[i] = source[n-1-i]; rev of rev is the original.
C20_Rev ==
    (last.op = "rev")
       => LET x == last.pre
              n == Len(x)
              r == last.res.val
          IN  /\ last.res.kind = "ok"
              /\ Len(r) = n
              /\ \A i \in 0..(n - 1) : r[i + 1] = x[n - i]
              /\ rev(r).kind = "ok"
              /\ \A i \in 1..n : rev(r).val[i] = x[i]
              /\ Len(rev(r).val) = n

C20_Witness ==
    /\ last.op = "rev"
    /\ Len(last.pre) = 3
    /\ last.pre[1] # last.pre[3]
    /\ last.res.kind = "ok"

\* What every constructor but linspace and arrange builds.
SimpleConstructors ==
    /\ last.op = "from_vec"
          => /\ last.res.kind = "ok"
             /\ Len(sig) = Len(last.v)
             /\ Len(to_vec(sig)) = Len(last.v)
             /\ \A k \in 1..Len(last.v) :
                   sig[k] = last.v[k] /\ to_vec(sig)[k] = last.v[k]
    /\ last.op = "from_elem"
          => last.res.kind = "ok" /\ Len(sig) = last.n
             /\ \A k \in 1..last.n : sig[k] = last.e
    /\ last.op = "from_len_fn"
          => last.res.kind = "ok" /\ Len(sig) = last.n
             /\ \A i \in 0..(last.n - 1) : sig[i + 1] = last.f[i]
    /\ last.op = "from_iter"
          => last.res.kind = "ok" /\ Len(sig) = Len(last.v)
             /\ \A k \in 1..Len(last.v) : sig[k] = last.v[k]
    /\ last.op = "zeros"
          => last.res.kind = "ok" /\ Len(sig) = last.n
             /\ \A k \in 1..last.n : sig[k] = 0
    /\ last.op = "ones"
          => last.res.kind = "ok" /\ Len(sig) = last.n
             /\ \A k \in 1..last.n : sig[k] = 1

\* n samples, evenly spaced.
EvenlySpaced(s, n) ==
    /\ Len(s) = n
    /\ \A k \in 1..(n - 2) :
          f64_sub(s[k + 1], s[k]) = f64_sub(s[k + 2], s[k + 1])

\* start + k * step for exactly the k >= 0 with start + k * step < end.
HoldsProgression(s, start, end, step) ==
    \A k \in 0..(2 * MaxLen + 2) :
       LET x == f64_add(start, f64_mul(step, <<k, 1>>))
       IN  /\ (k < Len(s)) <=> f64_lt(x, end)
           /\ k < Len(s) => s[k + 1] = x

HoldsProgressionDown(s, start, end, step) ==
    \A k \in 0..(2 * MaxLen + 2) :
       LET x == f64_add(start, f64_mul(step, <<k, 1>>))
       IN  /\ (k < Len(s)) <=> f64_lt(end, x)
           /\ k < Len(s) => s[k + 1] = x

\* (end - start) / step is not a number, infinite, or at most -1: step is
\* zero, or end lies a whole step or more on the wrong side of start.
ArrangeRefused(start, end, step) ==
    \/ step[1] = 0
    \/ step[1] > 0 /\ ~f64_lt(f64_sub(start, step), end)
    \/ step[1] < 0 /\ ~f64_lt(end, f64_sub(start, step))

IsOp(op, r, x, y) ==
    CASE op = "add" -> r[1] * x[2] * y[2] = (x[1] * y[2] + y[1] * x[2]) * r[2]
      [] op = "sub" -> r[1] * x[2] * y[2] = (x[1] * y[2] - y[1] * x[2]) * r[2]
      [] op = "mul" -> r[1] * x[2] * y[2] = x[1] * y[1] * r[2]
      [] op = "div" -> r[1] * x[2] * y[1] = x[1] * y[2] * r[2]

ValueForms == {"value", "value_scalar", "transform", "windows", "statistic"}

C14_MismatchFails ==
    (last.form \in {"value", "assign"} /\ Len(last.pre) # Len(last.other_pre))
        => last.res.kind = "panic"

\* C15: on equal lengths the value-returning form returns a container of the
\* same length with result[i] = a[i] op b[i]; the scalar form returns a
\* container of the same length with result[i] = a[i] op s.
C15_Elementwise ==
    /\ (last.form = "value" /\ Len(last.pre) = Len(last.other_pre)) =>
           /\ last.res.kind = "ok"
           /\ Len(last.res.val) = Len(last.pre)
           /\ \A k \in 1..Len(last.pre) :
                  IsOp(last.op, last.res.val[k], last.pre[k], last.other_pre[k])
    /\ last.form = "value_scalar" =>
           /\ last.res.kind = "ok"
           /\ Len(last.res.val) = Len(last.pre)
           /\ \A k \in 1..Len(last.pre) :
                  IsOp(last.op, last.res.val[k], last.pre[k], <<last.s, 1>>)

C15_Witness ==
    /\ last.form = "value"
    /\ last.op = "div"
    /\ last.pre = <<<<1, 1>>, <<2, 1>>>>
    /\ last.other_pre = <<<<2, 1>>, <<1, 1>>>>
    /\ last.res = Ok(<<<<1, 2>>, <<2, 1>>>>)

\* C16: on equal lengths the in-place form leaves the left operand equal to
\* what the value-returning form returns and the right operand unchanged;
\* the scalar in-place form likewise; Signal's operators agree with
\* SignalBase's, and `s1 += &s2; s1 *= &2` leaves (s1_old[i] + s2[i]) * 2.
C16_InPlaceAgrees ==
    /\ (last.form = "assign" /\ Len(last.pre) = Len(last.other_pre)) =>
           /\ last.res.kind = "ok"
           /\ Ok(sig) = elementwise(last.op, last.pre, last.other_pre).out
           /\ Ok(sig) = signal_elementwise(last.op, last.pre, last.other_pre).out
           /\ sig = signal_elementwise_assign(last.op, last.pre, last.other_pre).self
           /\ last.other = last.other_pre
           /\ last.op = "add" =>
                  LET twice == signal_scalar_assign("mul", sig, 2).self
                  IN  /\ Len(twice) = Len(last.pre)
                      /\ \A k \in 1..Len(last.pre) :
                             LET x == last.pre[k]
                                 y == last.other_pre[k]
                             IN  twice[k][1] * x[2] * y[2] =
                                     2 * (x[1] * y[2] + y[1] * x[2]) * twice[k][2]
    /\ last.form = "assign_scalar" =>
           /\ last.res.kind = "ok"
           /\ Ok(sig) = scalar(last.op, last.pre, last.s).out
           /\ Ok(sig) = signal_scalar(last.op, last.pre, last.s).out
           /\ sig = signal_scalar_assign(last.op, last.pre, last.s).self

C16_Witness ==
    /\ last.form = "assign"
    /\ last.op = "sub"
    /\ last.pre = <<<<1, 1>>, <<2, 1>>>>
    /\ last.other_pre = <<<<2, 1>>, <<2, 1>>>>
    /\ sig = <<<<-1, 1>>, <<0, 1>>>>

\* C21: a valid negative bound i of cut_from, cut_to and cut_from_to is
\* resolved to position n + i without overflow: the call gives what the same
\* call gives with n + i in place of i, for either bound of cut_from_to.
C21_NegativeBoundResolves ==
    LET x == last.pre
        n == Len(x)
        oc == overflow_checks
        Neg(i) == -n <= i /\ i < 0
    IN  /\ (last.op = "cut_from" /\ Neg(last.i))
              => /\ last.res # OverflowPanic
                 /\ last.res = cut_from(x, n + last.i, oc)
        /\ (last.op = "cut_to" /\ Neg(last.j))
              => /\ last.res # OverflowPanic
                 /\ last.res = cut_to(x, n + last.j, oc)
        /\ (last.op = "cut_from_to" /\ Neg(last.i) /\ ValidIdx(n, last.j))
              => /\ last.res # OverflowPanic
                 /\ last.res = cut_from_to(x, n + last.i, last.j, oc)
        /\ (last.op = "cut_from_to" /\ ValidIdx(n, last.i) /\ Neg(last.j))
              => /\ last.res # OverflowPanic
                 /\ last.res = cut_from_to(x, last.i, n + last.j, oc)

\* An indexed write of v at index i that completed took a container from
\* `before` to `after`: position Phys(n, i) holds v, every other position and
\* the length are as before.
WroteOne(before, after, i, v) ==
    LET n == Len(before)
    IN  /\ Len(after) = n
        /\ \A k \in 1..n :
              after[k] = IF k = Phys(n, i) + 1 THEN v ELSE before[k]

C22_State ==
    /\ (last.form \in {"assign", "assign_scalar", "write_self", "mutate"}
           /\ last.res.kind = "ok") => Len(sig) = Len(last.pre)
    /\ (last.form = "write_self" /\ last.res.kind = "ok")
           => WroteOne(last.pre, sig, last.i, last.c)
    /\ (last.form \in {"assign_ret", "write_ret"} /\ last.res.kind = "ok")
           => Len(last.ret.val) = Len(last.ret_pre.val)
    /\ (last.form = "write_ret" /\ last.res.kind = "ok")
           => WroteOne(last.ret_pre.val, last.ret.val, last.i, last.c)

\* C22: every step of a sequence of indexed writes, in-place scalar
\* operations and in-place elementwise operations keeps the length of the
\* container, so the length stays the one it was constructed with; an
\* indexed write that completes stores the value at one physical position
\* and leaves every other element as it was.
C22_LengthKept ==
    /\ []C22_State
    /\ [][Len(sig') = Len(sig)]_vars

C22_Witness ==
    /\ last.form = "write_self"
    /\ last.res.kind = "ok"
    /\ last.i = -1
    /\ last.pre = <<<<1, 1>>, <<1, 1>>>>
    /\ sig = <<<<1, 1>>, <<2, 1>>>>

\* C23: a call of next leaves the container unchanged and returns the
\* element at position 0, None only for the empty container; the call that
\* follows on the container it left returns the same again, so a non-empty
\* container never answers None.
C23_NextStaysAtFirst ==
    last.op = "next"
        => /\ sig = last.v
           /\ Len(sig) = 0 => last.res = None
           /\ Len(sig) > 0 => last.res = Ok(sig[1])
           /\ next(sig).self = sig
           /\ next(sig).out = last.res

C23_Witness ==
    /\ last.op = "next"
    /\ sig = <<2, 1, 3>>
    /\ last.res = Ok(2)

====
